---- MODULE Spec2Model ----
(***************************************************************************)
(* Model of api/index.py: a Flask file-hosting service that stores file    *)
(* bytes in GridFS (the content store) and one metadata document per file  *)
(* in the "files" collection (the record store).  Every HTTP handler is a  *)
(* process that runs one step per storage call, so that concurrent         *)
(* requests interleave exactly at the storage calls.                       *)
(*                                                                         *)
(* Strings that the code parses or concatenates (codes, extensions, lookup *)
(* paths) are sequences of one-character strings.  Content types and file  *)
(* names are only compared and stored, and stay opaque strings.            *)
(*                                                                         *)
(* A storage call either answers or raises; both outcomes are modelled at  *)
(* every call, and a request whose call raised for a reason outside the    *)
(* model carries storage_error.  A Database object is taken to be truthy,  *)
(* as the handlers' "if not db" tests intend.                              *)
(***************************************************************************)
EXTENDS Integers, Sequences, FiniteSets, TLC

(* ------------------------------ bounds -------------------------------- *)

\* number of request slots, i.e. of requests in flight at the same time
MaxReq == 2
\* number of uploads that get as far as code allocation
MaxUploads == 2
\* number of distinct outcomes of the random code generator
NumCodes == 2
\* the clock stops at this value
MaxTime == 3
\* the largest collection the listing is run on
MaxListed == 101

(* ----------------------- strings and constants ------------------------ *)

Req == 1..MaxReq

Dot == "."

Letters == <<"a", "b", "c", "d">>

\* length of a code: generate_random_code(4)
CodeLength == 4

\* the allocation loop regenerates while attempts < 10
MaxAttempts == 10

\* the retention policy of the specification (no counterpart in the code)
RetentionWindow == 1
SweepInterval == 1

EXTENSION_MAP ==
  [ct \in {"image/jpeg", "image/jpg", "image/png", "image/gif", "image/webp",
           "video/mp4", "video/mpeg", "video/quicktime", "video/x-msvideo",
           "video/webm", "application/pdf", "application/msword",
           "application/vnd.openxmlformats-officedocument.wordprocessingml.document",
           "text/plain", "application/zip", "application/x-rar-compressed"} |->
     CASE ct = "image/jpeg" -> <<Dot, "j", "p", "g">>
       [] ct = "image/jpg" -> <<Dot, "j", "p", "g">>
       [] ct = "image/png" -> <<Dot, "p", "n", "g">>
       [] ct = "image/gif" -> <<Dot, "g", "i", "f">>
       [] ct = "image/webp" -> <<Dot, "w", "e", "b", "p">>
       [] ct = "video/mp4" -> <<Dot, "m", "p", "4">>
       [] ct = "video/mpeg" -> <<Dot, "m", "p", "e", "g">>
       [] ct = "video/quicktime" -> <<Dot, "m", "o", "v">>
       [] ct = "video/x-msvideo" -> <<Dot, "a", "v", "i">>
       [] ct = "video/webm" -> <<Dot, "w", "e", "b", "m">>
       [] ct = "application/pdf" -> <<Dot, "p", "d", "f">>
       [] ct = "application/msword" -> <<Dot, "d", "o", "c">>
       [] ct = "application/vnd.openxmlformats-officedocument.wordprocessingml.document"
            -> <<Dot, "d", "o", "c", "x">>
       [] ct = "text/plain" -> <<Dot, "t", "x", "t">>
       [] ct = "application/zip" -> <<Dot, "z", "i", "p">>
       [] ct = "application/x-rar-compressed" -> <<Dot, "r", "a", "r">>]

\* EXTENSION_MAP.get(content_type, '.bin')
get_extension(content_type) ==
  IF content_type \in DOMAIN EXTENSION_MAP
    THEN EXTENSION_MAP[content_type]
    ELSE <<Dot, "b", "i", "n">>

\* the outcomes of ''.join(random.choices(letters + digits, k=length)); the
\* random source is cut down to NumCodes outcomes so that collisions happen
generate_random_code(length) ==
  {[i \in 1..length |-> IF i < length THEN Letters[1] ELSE Letters[k]] :
     k \in 1..NumCodes}

(* ------------------------------ inputs -------------------------------- *)

\* the multipart bodies a client posts to /upload: whether a 'file' part is
\* present, its filename, its declared content type ("" when it has none)
\* and its bytes
UploadInputs ==
  {[has_file |-> TRUE, filename |-> "a.png", content_type |-> "image/png", data |-> <<1>>],
   [has_file |-> TRUE, filename |-> "b", content_type |-> "application/x-custom", data |-> <<2>>],
   [has_file |-> TRUE, filename |-> "c", content_type |-> "", data |-> << >>],
   [has_file |-> TRUE, filename |-> "", content_type |-> "image/png", data |-> <<1>>],
   [has_file |-> FALSE, filename |-> "", content_type |-> "", data |-> << >>]}

\* the extensions a client appends to a code: none, the two that uploads of
\* UploadInputs get, and a bare trailing dot
PathSuffixes == {<< >>, <<Dot, "p", "n", "g">>, <<Dot, "b", "i", "n">>, <<Dot>>}

\* the paths a client requests from the catch-all route: a code with or
\* without an extension, and the name of another route
ViewPaths ==
  {c \o e : c \in generate_random_code(CodeLength), e \in PathSuffixes}
    \cup {<<"u", "p", "l", "o", "a", "d">>}

\* the ids a client passes to /delete/<file_id>: 0 is a string that is not
\* an ObjectId, the others are well-formed ObjectIds
BadId == 0
DeleteIds == 0..MaxUploads

(* ------------------------------- state -------------------------------- *)

VARIABLES
  _db,            \* the global _db: "None" or "Database"
  mongo_uri_set,  \* whether the environment has MONGO_URI
  server_info_ok, \* whether client.server_info() has ever answered
  files,          \* the documents of the collection 'files'
  blobs,          \* GridFS: file id -> stored file
  nextRid,        \* the next _id the collection hands out
  nextFid,        \* the next file id GridFS hands out
  now,            \* datetime.utcnow()
  req,            \* the requests in flight, one per slot
  response,       \* the request that has just returned, until it is delivered
  created,        \* every document ever inserted, with the bytes and the type
                  \* uploaded and whether a live document had its code already
  deleted         \* the ids whose delete request returned success

vars == <<_db, server_info_ok, mongo_uri_set, files, blobs, nextRid, nextFid, now, req, response, created, deleted>>

\* a request slot that runs no request
IdleReq ==
  [kind |-> "none", pc |-> "idle", status |-> 0,
   input |-> [has_file |-> FALSE, filename |-> "", content_type |-> "", data |-> << >>],
   content_type |-> "", extension |-> << >>, code |-> << >>, attempts |-> 0,
   file_id |-> 0, rid |-> 0, url |-> << >>,
   path |-> << >>, id |-> 0, doc |-> {},
   body |-> << >>, mimetype |-> "",
   database |-> "", uri_set |-> FALSE, listing |-> << >>,
   ops |-> << >>, storage_error |-> FALSE]

Init ==
  /\ _db = "None"
  /\ mongo_uri_set \in BOOLEAN
  /\ server_info_ok = FALSE
  /\ files = {}
  /\ blobs = << >>
  /\ nextRid = 1
  /\ nextFid = 1
  /\ now = 0
  /\ req = [i \in Req |-> IdleReq]
  /\ response = IdleReq
  /\ created = {}
  /\ deleted = {}

\* the last response has been delivered: no request has just returned
Delivered == response.pc = "idle"

\* a slot is free when it runs no request
Free(i) == Delivered /\ req[i].pc = "idle"

\* request i of the given kind is at the given place
At(i, kind, pc) == Delivered /\ req[i].kind = kind /\ req[i].pc = pc

\* request i takes a step and is then r
Goto(i, r) == req' = [req EXCEPT ![i] = r] /\ response' = response

\* request i returns as r with the given status and frees its slot.  The
\* returned request stays in response for exactly one state, the state at
\* the instant of the return: the next step is Deliver.
Return(i, r, status) ==
  /\ req' = [req EXCEPT ![i] = IdleReq]
  /\ response' = [r EXCEPT !.pc = "done", !.status = status]

LiveIds == {d._id : d \in files}

(* ------------------------------ get_db -------------------------------- *)

\* the outcomes of one call of get_db(): the value it leaves in _db,
\* whether it returns the handles (TRUE) or (None, None, None) (FALSE), and
\* whether server_info() has answered by then.  Once _db is set the
\* connection is never tested again.  With _db unset and MONGO_URI present,
\* MongoClient() can raise before _db is assigned, or _db is assigned and
\* server_info() then answers or raises.
get_db ==
  IF _db # "None" THEN {[db |-> _db, ok |-> TRUE, tested |-> server_info_ok]}
  ELSE IF ~mongo_uri_set THEN {[db |-> "None", ok |-> FALSE, tested |-> server_info_ok]}
  ELSE {[db |-> "None", ok |-> FALSE, tested |-> server_info_ok],
        [db |-> "Database", ok |-> FALSE, tested |-> server_info_ok],
        [db |-> "Database", ok |-> TRUE, tested |-> TRUE]}

\* files_collection.find_one(query), given the documents that match the
\* query: any one of them, as a set with at most one element
find_one(matching) ==
  IF matching = {} THEN {{}} ELSE {{d} : d \in matching}

\* filename.rsplit('.', 1)
LastDot(s) ==
  IF \E k \in 1..Len(s) : s[k] = Dot
    THEN CHOOSE k \in 1..Len(s) : s[k] = Dot /\ \A j \in (k+1)..Len(s) : s[j] # Dot
    ELSE 0

rsplit(s) ==
  IF LastDot(s) = 0 THEN <<s>>
  ELSE <<SubSeq(s, 1, LastDot(s) - 1), SubSeq(s, LastDot(s) + 1, Len(s))>>

\* the query view_file builds from the path: code and, when the path has a
\* dot, the extension
ViewCode(path) == IF Len(rsplit(path)) = 2 THEN rsplit(path)[1] ELSE path
ViewExt(path) == IF Len(rsplit(path)) = 2 THEN <<Dot>> \o rsplit(path)[2] ELSE << >>
\* a query that leaves the extension out
ViewMatch_code_only(path, d) == d.code = ViewCode(path)

ViewMatch(path, d) ==
  /\ d.code = ViewCode(path)
  /\ ViewExt(path) # << >> => d.extension = ViewExt(path)

(* ------------------------------ upload -------------------------------- *)

\* uploads that will take or may still take a GridFS file id
Allocating == {i \in Req : req[i].kind = "upload" /\ req[i].pc \in {"check", "put"}}

\* an upload that does not look at the file part before it allocates a code
upload_file_unchecked(i) ==
  /\ Free(i)
  /\ \E g \in get_db, in \in UploadInputs :
       /\ _db' = g.db /\ server_info_ok' = g.tested
       /\ LET r == [IdleReq EXCEPT !.kind = "upload", !.input = in] IN
          IF ~g.ok THEN Return(i, r, 500)
          ELSE /\ nextFid + Cardinality(Allocating) <= MaxUploads
               /\ \E c \in generate_random_code(CodeLength) :
                    LET ct == IF in.content_type = "" THEN "application/octet-stream"
                              ELSE in.content_type IN
                    Goto(i, [r EXCEPT !.pc = "check", !.content_type = ct,
                                      !.extension = get_extension(ct),
                                      !.code = c, !.attempts = 0])
  /\ UNCHANGED <<mongo_uri_set, files, blobs, nextRid, nextFid, now, created, deleted>>

\* POST /upload up to the start of the allocation loop (lines 107-130)
upload_file(i) ==
  /\ Free(i)
  /\ \E g \in get_db, in \in UploadInputs :
       /\ _db' = g.db /\ server_info_ok' = g.tested
       /\ LET r == [IdleReq EXCEPT !.kind = "upload", !.input = in] IN
          IF ~g.ok THEN Return(i, r, 500)
          ELSE IF ~in.has_file THEN Return(i, r, 400)
          ELSE IF in.filename = "" THEN Return(i, r, 400)
          ELSE /\ nextFid + Cardinality(Allocating) <= MaxUploads
               /\ \E c \in generate_random_code(CodeLength) :
                    LET ct == IF in.content_type = "" THEN "application/octet-stream"
                              ELSE in.content_type IN
                    Goto(i, [r EXCEPT !.pc = "check", !.content_type = ct,
                                      !.extension = get_extension(ct),
                                      !.code = c, !.attempts = 0])
  /\ UNCHANGED <<mongo_uri_set, files, blobs, nextRid, nextFid, now, created, deleted>>

\* an allocation loop that gives the upload up when its retries run out
upload_check_give_up(i) ==
  /\ At(i, "upload", "check")
  /\ LET r == [req[i] EXCEPT !.ops = Append(@, "find_one")] IN
     \/ \E f \in find_one({d \in files : d.code = req[i].code}) :
          IF f # {} /\ req[i].attempts < MaxAttempts
            THEN \E c \in generate_random_code(CodeLength) :
                   Goto(i, [r EXCEPT !.code = c, !.attempts = @ + 1])
            ELSE IF f # {} THEN Return(i, r, 500)
            ELSE Goto(i, [r EXCEPT !.pc = "put"])
     \/ Return(i, [r EXCEPT !.storage_error = TRUE], 500)
  /\ UNCHANGED <<_db, server_info_ok, mongo_uri_set, files, blobs, nextRid, nextFid, now, created, deleted>>

\* one evaluation of the loop condition, and the loop body when it holds
\* (lines 131-133); find_one can raise
upload_check(i) ==
  /\ At(i, "upload", "check")
  /\ LET r == [req[i] EXCEPT !.ops = Append(@, "find_one")] IN
     \/ \E f \in find_one({d \in files : d.code = req[i].code}) :
          IF f # {} /\ req[i].attempts < MaxAttempts
            THEN \E c \in generate_random_code(CodeLength) :
                   Goto(i, [r EXCEPT !.code = c, !.attempts = @ + 1])
            ELSE Goto(i, [r EXCEPT !.pc = "put"])
     \/ Return(i, [r EXCEPT !.storage_error = TRUE], 500)
  /\ UNCHANGED <<_db, server_info_ok, mongo_uri_set, files, blobs, nextRid, nextFid, now, created, deleted>>

\* a put that hands out an id but stores nothing
fs_put_lost(i) == blobs

\* fs.put(file_data, filename=..., content_type=...): the stored file
fs_put(i) ==
  blobs @@ (nextFid :> [data |-> req[i].input.data,
                        filename |-> req[i].input.filename,
                        content_type |-> req[i].content_type])

\* file_data = file.read() and fs.put (lines 136-141), or the except branch
upload_put(i) ==
  /\ At(i, "upload", "put")
  /\ LET r == [req[i] EXCEPT !.ops = Append(@, "put")] IN
     \/ /\ blobs' = fs_put(i)
        /\ nextFid' = nextFid + 1
        /\ Goto(i, [r EXCEPT !.pc = "insert", !.file_id = nextFid])
     \/ /\ Return(i, [r EXCEPT !.storage_error = TRUE], 500)
        /\ UNCHANGED <<blobs, nextFid>>
  /\ UNCHANGED <<_db, server_info_ok, mongo_uri_set, files, nextRid, now, created, deleted>>

\* the document upload_file builds (lines 144-152)
file_doc(i) ==
  [_id |-> nextRid, code |-> req[i].code, extension |-> req[i].extension,
   original_name |-> req[i].input.filename, content_type |-> req[i].content_type,
   file_id |-> req[i].file_id, size |-> Len(req[i].input.data), uploaded_at |-> now]

\* files_collection.insert_one(file_doc): the collection has no unique index
insert_one(doc) == files \cup {doc}

\* the metadata insert and the 201 response (lines 154-169), or the except
\* branch (lines 171-175)
upload_insert(i) ==
  /\ At(i, "upload", "insert")
  /\ LET r == [req[i] EXCEPT !.ops = Append(@, "insert_one")] IN
     \/ /\ files' = insert_one(file_doc(i))
        /\ nextRid' = nextRid + 1
        /\ created' = created \cup
             {[doc |-> file_doc(i), data |-> req[i].input.data,
               content_type |-> req[i].input.content_type,
               duplicate |-> \E d \in files : d.code = req[i].code]}
        /\ Return(i, [r EXCEPT !.rid = nextRid,
                               !.url = req[i].code \o req[i].extension], 201)
     \/ /\ Return(i, [r EXCEPT !.storage_error = TRUE], 500)
        /\ UNCHANGED <<files, nextRid, created>>
  /\ UNCHANGED <<_db, server_info_ok, mongo_uri_set, blobs, nextFid, now, deleted>>

(* ------------------------------- view --------------------------------- *)

SpecialRoutes == {<<"u", "p", "l", "o", "a", "d">>, <<"h", "e", "a", "l", "t", "h">>,
                  <<"f", "i", "l", "e", "s">>}

\* GET /<path> up to and including files_collection.find_one(query)
\* (lines 181-209)
view_file(i) ==
  /\ Free(i)
  /\ \E path \in ViewPaths :
       LET r == [IdleReq EXCEPT !.kind = "view", !.path = path] IN
       IF path \in SpecialRoutes
         THEN Return(i, r, 404) /\ UNCHANGED <<_db, server_info_ok>>
         ELSE \E g \in get_db :
                /\ _db' = g.db /\ server_info_ok' = g.tested
                /\ IF ~g.ok THEN Return(i, r, 500)
                   ELSE LET q == [r EXCEPT !.ops = <<"find_one">>] IN
                     \/ \E f \in find_one({d \in files : ViewMatch(path, d)}) :
                          IF f = {} THEN Return(i, q, 404)
                          ELSE Goto(i, [q EXCEPT !.pc = "get", !.doc = f])
                     \/ Return(i, [q EXCEPT !.storage_error = TRUE], 500)
  /\ UNCHANGED <<mongo_uri_set, files, blobs, nextRid, nextFid, now, created, deleted>>

\* a read that removes the file from GridFS once it has served it
view_get_once(i) ==
  /\ At(i, "view", "get")
  /\ LET r == [req[i] EXCEPT !.ops = Append(@, "get")] IN
     \E d \in req[i].doc :
       \/ IF d.file_id \in DOMAIN blobs
            THEN /\ Return(i, [r EXCEPT !.body = blobs[d.file_id].data,
                                        !.mimetype = d.content_type], 200)
                 /\ blobs' = [f \in DOMAIN blobs \ {d.file_id} |-> blobs[f]]
            ELSE Return(i, r, 500) /\ blobs' = blobs
       \/ Return(i, [r EXCEPT !.storage_error = TRUE], 500) /\ blobs' = blobs
  /\ UNCHANGED <<_db, server_info_ok, mongo_uri_set, files, nextRid, nextFid, now, created, deleted>>

\* a read that serves an empty body when GridFS has no such file
view_get_empty(i) ==
  /\ At(i, "view", "get")
  /\ LET r == [req[i] EXCEPT !.ops = Append(@, "get")] IN
     \E d \in req[i].doc :
       \/ Return(i, [r EXCEPT !.body = IF d.file_id \in DOMAIN blobs
                                        THEN blobs[d.file_id].data ELSE << >>,
                              !.mimetype = d.content_type], 200)
       \/ Return(i, [r EXCEPT !.storage_error = TRUE], 500)
  /\ UNCHANGED <<_db, server_info_ok, mongo_uri_set, files, blobs, nextRid, nextFid, now, created, deleted>>

\* fs.get(file_doc['file_id']).read() and the response (lines 212-222), or
\* the except branch; fs.get raises NoFile when GridFS has no such file
view_get(i) ==
  /\ At(i, "view", "get")
  /\ LET r == [req[i] EXCEPT !.ops = Append(@, "get")] IN
     \E d \in req[i].doc :
       \/ IF d.file_id \in DOMAIN blobs
            THEN Return(i, [r EXCEPT !.body = blobs[d.file_id].data,
                                     !.mimetype = d.content_type], 200)
            ELSE Return(i, r, 500)
       \/ Return(i, [r EXCEPT !.storage_error = TRUE], 500)
  /\ UNCHANGED <<_db, server_info_ok, mongo_uri_set, files, blobs, nextRid, nextFid, now, created, deleted>>

(* ------------------------------ delete -------------------------------- *)

\* DELETE /delete/<file_id> up to and including the find_one by _id
\* (lines 233-244); ObjectId(file_id) raises on a malformed id
delete_file(i) ==
  /\ Free(i)
  /\ \E g \in get_db, id \in DeleteIds :
       /\ _db' = g.db /\ server_info_ok' = g.tested
       /\ LET r == [IdleReq EXCEPT !.kind = "delete", !.id = id] IN
          IF ~g.ok THEN Return(i, r, 500)
          ELSE IF id = BadId THEN Return(i, r, 500)
          ELSE LET q == [r EXCEPT !.ops = <<"find_one">>] IN
            \/ \E f \in find_one({d \in files : d._id = id}) :
                 IF f = {} THEN Return(i, q, 404)
                 ELSE Goto(i, [q EXCEPT !.pc = "fsdel", !.doc = f])
            \/ Return(i, [q EXCEPT !.storage_error = TRUE], 500)
  /\ UNCHANGED <<mongo_uri_set, files, blobs, nextRid, nextFid, now, created, deleted>>

\* GridFS.delete(file_id): removes the file when it is there
fs_delete(file_id) == [f \in DOMAIN blobs \ {file_id} |-> blobs[f]]

\* a content delete whose failure is swallowed: the handler goes on
delete_content_swallow(i) ==
  /\ At(i, "delete", "fsdel")
  /\ LET r == [req[i] EXCEPT !.ops = Append(@, "fs.delete")] IN
     \E d \in req[i].doc :
       \/ /\ blobs' = fs_delete(d.file_id)
          /\ Goto(i, [r EXCEPT !.pc = "delone"])
       \/ /\ Goto(i, [r EXCEPT !.pc = "delone", !.storage_error = TRUE])
          /\ blobs' = blobs
  /\ UNCHANGED <<_db, server_info_ok, mongo_uri_set, files, nextRid, nextFid, now, created, deleted>>

\* fs.delete(file_doc['file_id']) (line 247), or the except branch
delete_content(i) ==
  /\ At(i, "delete", "fsdel")
  /\ LET r == [req[i] EXCEPT !.ops = Append(@, "fs.delete")] IN
     \E d \in req[i].doc :
       \/ /\ blobs' = fs_delete(d.file_id)
          /\ Goto(i, [r EXCEPT !.pc = "delone"])
       \/ /\ Return(i, [r EXCEPT !.storage_error = TRUE], 500)
          /\ blobs' = blobs
  /\ UNCHANGED <<_db, server_info_ok, mongo_uri_set, files, nextRid, nextFid, now, created, deleted>>

\* a delete_one whose filter matches every other document
delete_one_others(id) == {d \in files : d._id = id}

\* a delete_one whose filter matches no document
delete_one_nothing(id) == files

\* files_collection.delete_one({'_id': ObjectId(file_id)})
delete_one(id) == {d \in files : d._id # id}

\* the metadata delete and the 200 response (lines 250-255), or the except
\* branch
delete_meta(i) ==
  /\ At(i, "delete", "delone")
  /\ LET r == [req[i] EXCEPT !.ops = Append(@, "delete_one")] IN
     \/ /\ files' = delete_one(req[i].id)
        /\ deleted' = deleted \cup {req[i].id}
        /\ Return(i, r, 200)
     \/ /\ Return(i, [r EXCEPT !.storage_error = TRUE], 500)
        /\ UNCHANGED <<files, deleted>>
  /\ UNCHANGED <<_db, server_info_ok, mongo_uri_set, blobs, nextRid, nextFid, now, created>>

(* ------------------------------- info --------------------------------- *)

\* GET /info/<code> (lines 301-329)
file_info(i) ==
  /\ Free(i)
  /\ \E g \in get_db, code \in generate_random_code(CodeLength) :
       /\ _db' = g.db /\ server_info_ok' = g.tested
       /\ LET r == [IdleReq EXCEPT !.kind = "info", !.code = code] IN
          IF ~g.ok THEN Return(i, r, 500)
          ELSE LET q == [r EXCEPT !.ops = <<"find_one">>] IN
            \/ \E f \in find_one({d \in files : d.code = code}) :
                 IF f = {} THEN Return(i, q, 404)
                 ELSE Return(i, [q EXCEPT !.doc = f], 200)
            \/ Return(i, [q EXCEPT !.storage_error = TRUE], 500)
  /\ UNCHANGED <<mongo_uri_set, files, blobs, nextRid, nextFid, now, created, deleted>>

(* ------------------------------ listing ------------------------------- *)

\* .limit(100)
ListLimit == 100

\* the entry list_files builds from a document (lines 275-284)
ListEntry(d) ==
  [file_id |-> d._id, code |-> d.code, original_name |-> d.original_name,
   url |-> d.code \o d.extension, size |-> d.size, type |-> d.content_type,
   uploaded_at |-> d.uploaded_at, delete_url |-> d._id]

\* the documents uploaded at time t, in the order of their _id that tie gives
uploaded_at(docs, t, tie) ==
  LET last == nextRid - 1
      ids == [k \in 1..last |-> IF tie = "asc" THEN k ELSE last + 1 - k]
      at == SelectSeq(ids, LAMBDA j : \E d \in docs : d._id = j /\ d.uploaded_at = t)
  IN [k \in 1..Len(at) |-> CHOOSE d \in docs : d._id = at[k]]

\* the documents in descending order of uploaded_at, for upload times up
\* to t
RECURSIVE newest_first(_, _, _)
newest_first(docs, t, tie) ==
  IF t < 0 THEN << >> ELSE uploaded_at(docs, t, tie) \o newest_first(docs, t - 1, tie)

\* a sort that puts the oldest document first
sort_oldest_first(docs, tie) ==
  LET s == newest_first(docs, MaxTime, tie) IN [k \in 1..Len(s) |-> s[Len(s) + 1 - k]]

\* files_collection.find().sort('uploaded_at', -1).  The order of documents
\* with equal uploaded_at is not specified; they come in either order of _id.
sort(docs, tie) == newest_first(docs, MaxTime, tie)

\* cursor.limit(n)
limit(cursor, n) == SubSeq(cursor, 1, IF Len(cursor) < n THEN Len(cursor) ELSE n)

\* GET /files (lines 266-296)
list_files(i) ==
  /\ Free(i)
  /\ \E g \in get_db :
       /\ _db' = g.db /\ server_info_ok' = g.tested
       /\ LET r == [IdleReq EXCEPT !.kind = "list"] IN
          IF ~g.ok THEN Return(i, r, 500)
          ELSE LET q == [r EXCEPT !.ops = <<"find">>] IN
            \/ \E tie \in {"asc", "desc"} :
                 LET cursor == limit(sort(files, tie), ListLimit) IN
                 Return(i, [q EXCEPT !.listing =
                                 [k \in 1..Len(cursor) |-> ListEntry(cursor[k])]], 200)
            \/ Return(i, [q EXCEPT !.storage_error = TRUE], 500)
  /\ UNCHANGED <<mongo_uri_set, files, blobs, nextRid, nextFid, now, created, deleted>>

(* --------------------------- home and health --------------------------- *)

\* 'connected' if db else 'disconnected'
database(ok) == IF ok THEN "connected" ELSE "disconnected"

\* GET / (lines 72-79)
home(i) ==
  /\ Free(i)
  /\ \E g \in get_db :
       /\ _db' = g.db /\ server_info_ok' = g.tested
       /\ Return(i, [IdleReq EXCEPT !.kind = "home", !.database = database(g.ok)], 200)
  /\ UNCHANGED <<mongo_uri_set, files, blobs, nextRid, nextFid, now, created, deleted>>

\* GET /health (lines 83-102)
health(i) ==
  /\ Free(i)
  /\ \E g \in get_db :
       /\ _db' = g.db /\ server_info_ok' = g.tested
       /\ LET r == [IdleReq EXCEPT !.kind = "health", !.uri_set = mongo_uri_set,
                                   !.database = database(g.ok)] IN
          IF ~mongo_uri_set THEN Return(i, r, 500)
          ELSE IF ~g.ok THEN Return(i, r, 500)
          ELSE Return(i, r, 200)
  /\ UNCHANGED <<mongo_uri_set, files, blobs, nextRid, nextFid, now, created, deleted>>

(* ------------------------------- clock -------------------------------- *)

\* time passes
Tick ==
  /\ Delivered
  /\ now < MaxTime
  /\ now' = now + 1
  /\ UNCHANGED <<_db, server_info_ok, mongo_uri_set, files, blobs, nextRid, nextFid, req, response, created, deleted>>

(* ------------------------------ response ------------------------------ *)

\* the response of the request that has just returned goes out
Deliver ==
  /\ ~Delivered
  /\ response' = IdleReq
  /\ UNCHANGED <<_db, server_info_ok, mongo_uri_set, files, blobs, nextRid, nextFid, now, req, created, deleted>>

(* --------------------------- specification ---------------------------- *)

Next ==
  \/ \E i \in Req : upload_file(i)
  \/ \E i \in Req : upload_check(i)
  \/ \E i \in Req : upload_put(i)
  \/ \E i \in Req : upload_insert(i)
  \/ \E i \in Req : view_file(i)
  \/ \E i \in Req : view_get(i)
  \/ \E i \in Req : delete_file(i)
  \/ \E i \in Req : delete_content(i)
  \/ \E i \in Req : delete_meta(i)
  \/ \E i \in Req : file_info(i)
  \/ \E i \in Req : list_files(i)
  \/ \E i \in Req : home(i)
  \/ \E i \in Req : health(i)
  \/ Deliver

Spec == Init /\ [][Next]_vars

\* the service with a running clock, serving one request at a time
NextClock ==
  \/ upload_file(1) \/ upload_check(1) \/ upload_put(1) \/ upload_insert(1)
  \/ view_file(1) \/ view_get(1)
  \/ delete_file(1) \/ delete_content(1) \/ delete_meta(1)
  \/ file_info(1)
  \/ list_files(1) \/ home(1) \/ health(1)
  \/ Deliver
  \/ Tick

SpecClock == Init /\ [][NextClock]_vars

\* the document and the stored file of the k-th upload of a collection whose
\* upload times advance by stride and wrap at the end of the clock
ListedDoc(k, stride) ==
  [_id |-> k, code |-> [j \in 1..CodeLength |->
                          IF j < CodeLength THEN Letters[1] ELSE Letters[1 + (k % NumCodes)]],
   extension |-> get_extension("image/png"), original_name |-> "a.png",
   content_type |-> "image/png", file_id |-> k, size |-> 1,
   uploaded_at |-> (k * stride) % (MaxTime + 1)]

ListedBlob == [data |-> <<1>>, filename |-> "a.png", content_type |-> "image/png"]

\* the service after n uploads, connected
InitListed ==
  \E n \in 0..MaxListed, stride \in 0..MaxTime :
    /\ _db = "Database"
    /\ mongo_uri_set = TRUE
    /\ server_info_ok = TRUE
    /\ files = {ListedDoc(k, stride) : k \in 1..n}
    /\ blobs = [k \in 1..n |-> ListedBlob]
    /\ nextRid = n + 1
    /\ nextFid = n + 1
    /\ now = MaxTime
    /\ req = [i \in Req |-> IdleReq]
    /\ response = IdleReq
    /\ created = {[doc |-> ListedDoc(k, stride), data |-> <<1>>,
                   content_type |-> "image/png", duplicate |-> k > NumCodes] : k \in 1..n}
    /\ deleted = {}

\* the listing of collections up to and beyond the limit
NextListed == list_files(1) \/ Deliver

SpecListed == InitListed /\ [][NextListed]_vars

(* ----------------------------- properties ----------------------------- *)

\* a request returns in this step; response' is the request as it returned
Returns == Delivered /\ ~Delivered'

\* s is a request of the given kind that made its first storage call,
\* find_one, in this step: it returned at once or went on to its next call
Started(s, kind) ==
  /\ s.kind = kind
  /\ \/ Returns /\ s = response' /\ s.ops = <<"find_one">>
     \/ \E i \in Req : req[i].pc = "idle" /\ req'[i].pc # "idle" /\ s = req'[i]

\* the requests after this step
After == {response'} \cup {req'[i] : i \in Req}

\* C1: no two live records have the same code, under any interleaving of
\* concurrent uploads
C1_UniqueCodes == \A d, e \in files : d.code = e.code => d = e

\* C2: every live record's file_id refers to a blob that exists in the
\* content store, and no blob is referenced by two live records, in every
\* reachable state, including those where an upload or a delete is part-way
C2_LiveRecordHasBlob ==
  \A d \in files :
    /\ d.file_id \in DOMAIN blobs
    /\ \A e \in files : e.file_id = d.file_id => e = d

\* the content type an upload declares; a part without one counts as
\* application/octet-stream
Declared(c) == IF c.content_type = "" THEN "application/octet-stream" ELSE c.content_type

\* C3: while the record of a successful upload has not been deleted (neither
\* its metadata nor its blob), a lookup of its code, and of its code followed
\* by its extension, finds that record and returns the uploaded bytes with
\* the declared content type (storage calls that raise aside)
C3_LookupReturnsUpload ==
  [][\A c \in created : c.doc \in files /\ c.doc.file_id \in DOMAIN blobs =>
       /\ \A s \in After :
            /\ Started(s, "view")
            /\ s.path \in {c.doc.code, c.doc.code \o c.doc.extension}
            /\ ~s.storage_error
            => s.doc = {c.doc}
       /\ /\ Returns
          /\ response'.kind = "view"
          /\ response'.doc = {c.doc}
          /\ ~response'.storage_error
          => /\ response'.status = 200
             /\ response'.body = c.data
             /\ response'.mimetype = Declared(c)]_vars

\* C6: when an upload returns an error after its content put succeeded
\* (the metadata insert failed), the blob it wrote is no longer in the
\* content store
C6_FailedUploadLeavesNoBlob ==
  /\ response.kind = "upload"
  /\ response.pc = "done"
  /\ response.status # 201
  /\ response.file_id # 0
  => response.file_id \notin DOMAIN blobs

\* C8: at the instant a delete request returns, with success or with an
\* error, the record it targeted is fully present (metadata live, blob
\* stored) or fully absent (metadata gone, blob gone)
C8_DeleteAtomic ==
  /\ response.kind = "delete"
  /\ response.pc = "done"
  => \A d \in response.doc :
       \/ d \in files /\ d.file_id \in DOMAIN blobs
       \/ d \notin files /\ d.file_id \notin DOMAIN blobs

\* the paths that look up the given code: the code alone or followed by
\* an extension
PathsOf(code) == {code \o x : x \in PathSuffixes}

\* C4 as claimed: once a delete of a record id has returned success, every
\* later lookup by the record's code and every later info request for the
\* code returns 404, and every later delete of the id returns 404 (storage
\* calls that raise aside).  It is stated for the runs in which no record
\* was inserted under the code of a live record, so that its failure does
\* not rest on C1.
C4_AfterDeleteNotFound ==
  [][\A c \in created : c.doc._id \in deleted /\ (\A e \in created : ~e.duplicate) =>
       \A s \in After :
         /\ \/ Started(s, "view") /\ s.path \in PathsOf(c.doc.code)
            \/ Started(s, "info") /\ s.code = c.doc.code
            \/ Started(s, "delete") /\ s.id = c.doc._id
         /\ ~s.storage_error
         => s.pc = "done" /\ s.status = 404]_vars

\* the live records a lookup of the path, or an info request for the code,
\* may resolve to
Candidates(s) ==
  IF s.kind = "info" THEN {d \in files : d.code = s.code}
  ELSE {d \in files : \E x \in PathSuffixes :
                         /\ s.path = d.code \o x
                         /\ x # << >> => d.extension = x}

\* C4 (amended): once a delete of a record id has returned success the record
\* is never live again; every later lookup by its code and every later info
\* request for the code returns 404 unless another live record carries the
\* code, and then resolves to such a record; every later delete of the id
\* returns 404 (storage calls that raise aside)
C4_AfterDeleteGone ==
  [][\A c \in created : c.doc._id \in deleted' =>
       /\ c.doc \notin files'
       /\ c.doc._id \in deleted =>
            \A s \in After :
              /\ ~s.storage_error
              => /\ \/ Started(s, "view") /\ s.path \in PathsOf(c.doc.code)
                    \/ Started(s, "info") /\ s.code = c.doc.code
                    => IF Candidates(s) = {}
                         THEN s.pc = "done" /\ s.status = 404
                         ELSE s.doc # {} /\ s.doc \subseteq Candidates(s)
                 /\ Started(s, "delete") /\ s.id = c.doc._id
                    => s.pc = "done" /\ s.status = 404]_vars

\* a lookup by the code of a deleted record has just returned 404
C4_Witness ==
  /\ response.kind = "view"
  /\ response.status = 404
  /\ \E c \in created : c.doc._id \in deleted /\ response.path \in PathsOf(c.doc.code)

\* C5: a record older than the retention window is gone from the record
\* store, without any client request, within one sweep cycle
C5_ExpiredRecordsSwept ==
  \A d \in files : now - d.uploaded_at <= RetentionWindow + SweepInterval

\* C7: a metadata record is removed only by a delete request whose content
\* delete has already been issued and has not failed; a delete whose content
\* delete fails returns an error at once and leaves the record store as it
\* is
C7_ContentDeleteFirst ==
  [][/\ \A d \in files \ files' :
          \E i \in Req : /\ At(i, "delete", "delone")
                         /\ req[i].id = d._id
                         /\ req[i].ops = <<"find_one", "fs.delete">>
                         /\ ~req[i].storage_error
     /\ \A i \in Req :
          At(i, "delete", "fsdel") /\ req'[i] # req[i] /\ req'[i].pc # "delone"
          => /\ Returns
             /\ response'.storage_error
             /\ response'.status = 500
             /\ files' = files]_vars

\* a delete has just returned an error from its failed content delete, and
\* the record it targeted is still live
C7_Witness ==
  /\ response.kind = "delete"
  /\ response.status = 500
  /\ response.ops = <<"find_one", "fs.delete">>
  /\ response.doc # {}
  /\ response.doc \subseteq files

\* C9: a record enters the record store only through an upload that has
\* already put its blob, and the blob is in the content store both before
\* and after the step that makes the record visible
C9_ContentBeforeMetadata ==
  [][\A d \in files' \ files :
       /\ d.file_id \in DOMAIN blobs
       /\ d.file_id \in DOMAIN blobs'
       /\ \E i \in Req : /\ At(i, "upload", "insert")
                         /\ req[i].file_id = d.file_id
                         /\ req[i].ops[Len(req[i].ops)] = "put"]_vars

\* an upload has just returned success, and its record and blob are stored
C9_Witness ==
  /\ response.kind = "upload"
  /\ response.status = 201
  /\ \E d \in files : d._id = response.rid /\ d.file_id \in DOMAIN blobs

\* C10: a lookup whose path is a code followed by an extension goes on to
\* serve a record only if a live record has that code and that extension,
\* and then serves such a record; otherwise it returns 404 (storage calls
\* that raise aside)
C10_ExtensionMustMatch ==
  [][\A s \in After, code \in generate_random_code(CodeLength),
        x \in PathSuffixes \ {<< >>} :
       /\ Started(s, "view")
       /\ s.path = code \o x
       /\ ~s.storage_error
       => LET exact == {d \in files : d.code = code /\ d.extension = x} IN
          IF exact = {} THEN s.pc = "done" /\ s.status = 404
          ELSE s.pc = "get" /\ s.doc # {} /\ s.doc \subseteq exact]_vars

\* a lookup has just returned 404 for the code of a live record followed by
\* an extension other than the stored one
C10_Witness ==
  /\ response.kind = "view"
  /\ response.status = 404
  /\ \E d \in files, x \in PathSuffixes \ {<< >>} :
       /\ response.path = d.code \o x
       /\ x # d.extension

\* the request is an upload without a file part, with an empty filename or
\* with zero bytes of content
InvalidInput(s) ==
  /\ s.kind = "upload"
  /\ \/ ~s.input.has_file
     \/ s.input.filename = ""
     \/ s.input.data = << >>

\* C11: an upload whose content is empty or whose filename is missing is
\* rejected with 400, and it creates no blob and no metadata record (uploads
\* that fail with 500 because storage is not connected or a storage call
\* raised aside)
C11_InvalidUploadRejected ==
  /\ response.pc = "done"
  /\ InvalidInput(response)
  /\ ~(response.status = 500 /\ (response.ops = << >> \/ response.storage_error))
  => /\ response.status = 400
     /\ response.file_id = 0
     /\ response.rid = 0

\* C12: on every call, the first and the later ones, a health response has
\* a non-2xx status while the connection string is unset or the connectivity
\* test, client.server_info(), has not succeeded; it never says 'connected'
\* with a 2xx status in that case
C12_HealthNeedsConnection ==
  /\ response.kind = "health"
  /\ response.pc = "done"
  /\ ~mongo_uri_set \/ ~server_info_ok
  => /\ response.status \notin 200..299
     /\ response.database # "connected"

\* C13: a lookup that found a metadata record and went on to read its
\* content returns 500 when the blob is missing from the content store, and
\* when it returns success its body is the whole of the uploaded content
C13_MissingBlobIsError ==
  /\ response.kind = "view"
  /\ response.pc = "done"
  /\ "get" \in {response.ops[k] : k \in DOMAIN response.ops}
  => \A d \in response.doc :
       /\ d.file_id \notin DOMAIN blobs => response.status = 500
       /\ response.status = 200 =>
            \E c \in created : c.doc = d /\ response.body = c.data

\* a lookup has just returned 500 because the blob of the live record it
\* found was gone when it read the content
C13_Witness ==
  /\ response.kind = "view"
  /\ response.pc = "done"
  /\ response.status = 500
  /\ ~response.storage_error
  /\ response.ops = <<"find_one", "get">>
  /\ \E d \in response.doc : d \in files /\ d.file_id \notin DOMAIN blobs

\* the fields of a listing entry
ListFields ==
  {"file_id", "code", "original_name", "url", "size", "type", "uploaded_at", "delete_url"}

\* C14: a listing holds live records, each once, newest first by
\* uploaded_at, at most 100 of them and none older than a record it leaves
\* out; each entry has the metadata fields only, not the content bytes
C14_ListingNewestFirst ==
  /\ response.kind = "list"
  /\ response.pc = "done"
  /\ response.status = 200
  => LET l == response.listing IN
     /\ Len(l) <= ListLimit
     /\ \A k \in 1..(Len(l) - 1) : l[k].uploaded_at >= l[k + 1].uploaded_at
     /\ \A k \in 1..Len(l) :
          /\ DOMAIN l[k] = ListFields
          /\ \E d \in files : l[k] = ListEntry(d)
          /\ \A j \in 1..Len(l) : l[j].file_id = l[k].file_id => j = k
     /\ \A d \in files :
          (\A k \in 1..Len(l) : l[k].file_id # d._id) =>
            /\ Len(l) = ListLimit
            /\ \A k \in 1..Len(l) : l[k].uploaded_at >= d.uploaded_at

\* a listing of a collection of more than 100 records with different upload
\* times has just returned 100 entries
C14_Witness ==
  /\ response.kind = "list"
  /\ response.status = 200
  /\ Cardinality(files) > ListLimit
  /\ Len(response.listing) = ListLimit
  /\ response.listing[1].uploaded_at > response.listing[ListLimit].uploaded_at

\* request slot i evaluates the allocation loop condition in this step
Checks(i) == req[i].kind = "upload" /\ req[i].pc = "check" /\ req'[i] # req[i]

\* C15: code allocation regenerates the code at most 10 times, one
\* regeneration per pre-check that finds a live record with the candidate
\* code; it leaves the loop as soon as the pre-check finds none, and after
\* the 10th regeneration it leaves it whatever the pre-check finds, going on
\* to write content and metadata under the candidate code; only a storage
\* call that raises fails the upload there
C15_AllocationBounded ==
  [][\A i \in Req : Checks(i) =>
       LET taken == \E d \in files : d.code = req[i].code IN
       /\ req[i].attempts <= MaxAttempts
       /\ Len(req[i].ops) = req[i].attempts
       /\ IF req'[i].pc = "idle"
            THEN response'.storage_error /\ response'.status = 500
          ELSE IF taken /\ req[i].attempts < MaxAttempts
            THEN /\ req'[i].pc = "check"
                 /\ req'[i].attempts = req[i].attempts + 1
          ELSE /\ req'[i].pc = "put"
               /\ req'[i].code = req[i].code
               /\ req'[i].attempts = req[i].attempts]_vars

\* an upload is about to write its content under the code of a live record
\* after 10 regenerations
C15_Witness ==
  \E i \in Req :
    /\ req[i].kind = "upload"
    /\ req[i].pc = "put"
    /\ req[i].attempts = MaxAttempts
    /\ \E d \in files : d.code = req[i].code

\* C16: a live record loses its metadata or its blob only in a step of a
\* delete request for its own record id; no step of any other request and
\* no passing of time removes either.  (The program has no sweeper: the only
\* thing that happens as a record's age passes the retention window is the
\* clock's advance.)
C16_OnlyOwnDeleteDestroys ==
  [][\A d \in files :
       \/ d \notin files'
       \/ d.file_id \in DOMAIN blobs /\ d.file_id \notin DOMAIN blobs'
       => \E i \in Req :
            /\ req[i].kind = "delete"
            /\ req[i].pc \in {"fsdel", "delone"}
            /\ req[i].id = d._id
            /\ req'[i] # req[i]]_vars

\* a delete has just returned success while another record, uploaded before
\* the clock last advanced and younger than the retention window, is live
\* with its blob
C16_Witness ==
  /\ response.kind = "delete"
  /\ response.status = 200
  /\ \E d \in files :
       /\ d._id # response.id
       /\ d.file_id \in DOMAIN blobs
       /\ d.uploaded_at < now
       /\ now - d.uploaded_at <= RetentionWindow

\* C17: the extension stored with an upload is the table entry of its
\* declared content type, and '.bin' when the type is not in the table or
\* is missing; and a lookup by the code of a live record, alone or followed
\* by the stored extension, resolves to that record (storage calls that
\* raise aside)
C17_StoredExtensionResolves ==
  [][/\ \A c \in created' :
          c.doc.extension = IF Declared(c) \in DOMAIN EXTENSION_MAP
                              THEN EXTENSION_MAP[Declared(c)]
                              ELSE <<Dot, "b", "i", "n">>
     /\ \A d \in files, s \in After :
          /\ Started(s, "view")
          /\ s.path \in {d.code, d.code \o d.extension}
          /\ ~s.storage_error
          => s.doc = {d}]_vars

\* a request of one of the kinds takes a step: it makes a storage call and
\* goes on, or it returns
StepOf(kinds) ==
  \/ Returns /\ response'.kind \in kinds
  \/ \E i \in Req : req'[i] # req[i] /\ req'[i].kind \in kinds

\* C18: every step of a lookup, an info request and a listing, whatever the
\* request's outcome, leaves the metadata records and the stored blobs as
\* they were
C18_ReadsChangeNothing ==
  [][StepOf({"view", "info", "list"}) => files' = files /\ blobs' = blobs]_vars

\* a lookup has just returned the content of a record, and the record and
\* its blob are still there
C18_Witness ==
  /\ response.kind = "view"
  /\ response.status = 200
  /\ \E d \in response.doc :
       /\ d \in files
       /\ d.file_id \in DOMAIN blobs
       /\ response.body = blobs[d.file_id].data

\* C19: an upload that arrives while storage is not connected, without a
\* 'file' part or with an empty filename returns before it makes a storage
\* call, with 500 or 400, and a delete whose id denotes no live record
\* returns without going on to the content store; both leave the metadata
\* records and the stored blobs as they were
C19_RejectedChangesNothing ==
  [][/\ \A i \in Req : req[i].pc = "idle" /\ req'[i].kind = "upload" =>
          /\ _db' # "None"
          /\ req'[i].input.has_file
          /\ req'[i].input.filename # ""
     /\ Returns /\ response'.kind = "upload" /\ response'.ops = << >> =>
          /\ response'.status \in {400, 500}
          /\ response'.status = 400 =>
               ~response'.input.has_file \/ response'.input.filename = ""
          /\ files' = files /\ blobs' = blobs
     /\ \A i \in Req : req[i].pc = "idle" /\ req'[i].kind = "delete" =>
          req'[i].id \in LiveIds
     /\ Returns /\ response'.kind = "delete" /\ response'.id \notin LiveIds
                /\ Len(response'.ops) <= 1 =>
          /\ response'.status \in {404, 500}
          /\ files' = files /\ blobs' = blobs]_vars

\* an upload without a usable file part has just been rejected with 400
\* while records and blobs are stored
C19_Witness ==
  /\ response.kind = "upload"
  /\ response.status = 400
  /\ response.ops = << >>
  /\ files # {}
  /\ DOMAIN blobs # {}

====
